---- MODULE Spec2Model ----
(***************************************************************************)
(* Playback scheduler of the sign-language visualizer: the React hook      *)
(* useSignAnimation (src/src/hooks/useSignAnimation.ts) together with the  *)
(* speed slider of AnimationControls.tsx that feeds setFps.                *)
(*                                                                         *)
(* A frame is represented by its label; a clip is a sequence of frames.    *)
(* isLoading and fileName, which no operation below reads, are left out.   *)
(* Time is in integer milliseconds.  The comparison                        *)
(*     timestamp - lastTimeRef.current >= 1000 / fps                       *)
(* is evaluated exactly as (timestamp - lastTimeRef) * fps >= 1000.        *)
(*                                                                         *)
(* React semantics the model relies on (React 18, concurrent root):        *)
(*  - the state updates of one handler are batched;                        *)
(*  - the closures of a render (setFrame over frames.length, the effect    *)
(*    and its animate callback over frames.length and fps) keep the values *)
(*    of that render until the next render: `rendered` holds them;         *)
(*  - an update made from a discrete event handler is rendered, and its    *)
(*    effects are flushed, before the handler's task ends;                 *)
(*  - an update made from an asynchronous completion (FileReader.onload,   *)
(*    the continuation of fetch) is rendered in a later task: until then   *)
(*    at most one already scheduled animation callback, or one event       *)
(*    handler of the previous render, can run.                             *)
(***************************************************************************)
EXTENDS Integers, Sequences, FiniteSets, TLC

VARIABLES
  frames,        \* useState<HandFrame[]>: the clip, a sequence of frame labels
  currentFrame,  \* useState(0): the cursor
  isPlaying,     \* useState(false)
  fps,           \* useState(12)
  animationRef,  \* useRef(null): TRUE once a requestAnimationFrame handle is stored
  lastTimeRef,   \* useRef(0): timestamp of the last advance
  now,           \* host clock: timestamp of the latest animation callback
  rendered,      \* [isPlaying, len, fps] of the last committed render (the effect's deps)
  raf,           \* the animation callback the browser holds: [live, len, fps]
  advances,      \* history: consecutive advances since the cursor was 0 (-1: none)
  isLoading,     \* useState(false) of the hook
  pending,       \* the loads in flight: a set of [kind, name]
  fileName,      \* useState<string | null>(null) of the hook
  loaded,        \* history: the name of the load whose text parseCSV turned into frames
  settled,       \* what the last load gave its caller: "none", "resolved" or "rejected"
  showCamera,    \* Index: useState(false), CameraCapture is mounted while TRUE
  isRecording,   \* CameraCapture: useState(false)
  recordingRef,  \* CameraCapture: useRef(false)
  framesRef,     \* CameraCapture: useRef<HandFrame[]>([])
  recordedFrames,\* CameraCapture: useState<HandFrame[]>([])
  signLabel,     \* CameraCapture: useState('')
  input,         \* the call under study of a pure function: [fn, ...arguments]
  output,        \* its result: [done |-> FALSE] or [done |-> TRUE, value |-> ...]
  boneRotation,  \* one rotation component of an avatar bone
  targetRotation,\* the target the frame gives that component
  smoothSteps,   \* useFrame callbacks since the target was set
  isReady,       \* MixamoAvatar: useState(false)
  bones,         \* the rotation of every rotation component the avatar drives
  tick,          \* history: what the last useFrame callback computed and targeted
  ticks          \* useFrame callbacks run

playVars == <<frames, currentFrame, isPlaying, fps, animationRef, lastTimeRef, now,
              rendered, raf, advances>>

loadVars == <<isLoading, pending, settled>>

nameVars == <<fileName, loaded>>

captureVars == <<showCamera, isRecording, recordingRef, framesRef, recordedFrames,
                 signLabel>>

dataVars == <<input, output>>

smoothVars == <<boneRotation, targetRotation, smoothSteps>>

avatarVars == <<isReady, bones, tick, ticks>>

vars == <<playVars, loadVars, nameVars, captureVars, dataVars, smoothVars, avatarVars>>

----------------------------------------------------------------------------
(* Bounds *)

MaxLen == 3

MaxTime == 300

RateLen == 24

RateWindow == 1000

MaxPending == 2

(* Program constants *)

InitialFps == 12

FpsMin == 5

FpsMax == 30

MsPerSecond == 1000

Labels == {"Happy", "Recorded"}

HostGaps == {100, 200}

RateGaps == {10, 50}

RateFps == {10, 12}

Clip(n, l) == IF n = 0 THEN << >> ELSE [i \in 1..n |-> l]

Clips == {Clip(n, l) : n \in 0..MaxLen, l \in Labels}

NonEmptyClips == {c \in Clips : Len(c) > 0}

SeekInputs == (-1..(MaxLen + 1)) \cup {-5}

Min2(a, b) == IF a <= b THEN a ELSE b

Max2(a, b) == IF a >= b THEN a ELSE b

----------------------------------------------------------------------------
(* The animation-loop effect *)

NoRaf == [live |-> FALSE, len |-> 0, fps |-> 0]

Deps(fr, p, f) == [isPlaying |-> p, len |-> Len(fr), fps |-> f]

\* cancelAnimationFrame(animationRef.current), guarded by `if (animationRef.current)`.
\* Every handle the hook requests is stored in animationRef, so the callback
\* the browser holds, if any, is the one animationRef names.
Cancel(ref, r) == IF ref THEN NoRaf ELSE r

\* The cleanup the previous run of the effect returned; a run that left by
\* the early return registered none.
EffectCleanup(d, ref, r) ==
  IF d.isPlaying /\ d.len > 0 THEN Cancel(ref, r) ELSE r

\* The effect body under deps d: early return with a cancel, or
\* animationRef.current = requestAnimationFrame(animate).
EffectBodyNoCancel(d, ref, r) ==
  IF ~d.isPlaying \/ d.len = 0
  THEN [raf |-> r, ref |-> ref]
  ELSE [raf |-> [live |-> TRUE, len |-> d.len, fps |-> d.fps], ref |-> TRUE]

EffectBody(d, ref, r) ==
  IF ~d.isPlaying \/ d.len = 0
  THEN [raf |-> Cancel(ref, r), ref |-> ref]
  ELSE [raf |-> [live |-> TRUE, len |-> d.len, fps |-> d.fps], ref |-> TRUE]

RunEffectNoCancel(old, d, ref, r) ==
  IF d = old THEN [raf |-> r, ref |-> ref] ELSE EffectBodyNoCancel(d, ref, r)

\* React re-runs the effect only when [isPlaying, frames.length, fps] changed:
\* the previous cleanup, then the body.
RunEffect(old, d, ref, r) ==
  IF d = old THEN [raf |-> r, ref |-> ref]
  ELSE EffectBody(d, ref, EffectCleanup(old, ref, r))

\* Render and commit of the state the step leaves, with the effect flushed.
RenderFrom(ref, r) ==
  LET d == Deps(frames', isPlaying', fps')
      e == RunEffect(rendered, d, ref, r)
  IN /\ rendered' = d
     /\ raf' = e.raf
     /\ animationRef' = e.ref

Render == RenderFrom(animationRef, raf)

RenderPending == rendered # Deps(frames, isPlaying, fps)

\* AnimationControls is rendered with disabled = (frames.length === 0): its
\* buttons and sliders act only while the rendered clip has frames.
ControlsEnabled == rendered.len > 0

\* History of the cursor for an operation other than an advance.
NoteOp == advances' = IF currentFrame' = 0 THEN 0 ELSE -1

----------------------------------------------------------------------------
(* Operations *)

\* The hook after its first render.
HookInit ==
  /\ frames = << >>
  /\ currentFrame = 0
  /\ isPlaying = FALSE
  /\ fps = InitialFps
  /\ animationRef = FALSE
  /\ lastTimeRef = 0
  /\ now = 0
  /\ rendered = Deps(<< >>, FALSE, InitialFps)
  /\ raf = NoRaf
  /\ advances = 0

\* No load in flight.
NoLoad ==
  /\ isLoading = FALSE
  /\ pending = {}
  /\ settled = "none"
  /\ fileName = "null"
  /\ loaded = "null"

\* The camera dialog is not mounted.
CameraClosed ==
  /\ showCamera = FALSE
  /\ isRecording = FALSE
  /\ recordingRef = FALSE
  /\ framesRef = << >>
  /\ recordedFrames = << >>
  /\ signLabel = ""

\* The rotation components useFrame drives for one side, as <<bone, axis>>:
\* the arm bones, and the finger bones of applyFingerRotations.
Fingers == {"thumb", "index", "middle", "ring", "pinky"}

ArmComponents ==
  {<<"Arm", "x">>, <<"Arm", "y">>, <<"Arm", "z">>, <<"ForeArm", "x">>,
   <<"Hand", "x">>, <<"Hand", "z">>}

\* The components resetFingerBones writes.
ResetFingerComponents ==
  {<<finger \o ".proximal", axis>> : finger \in Fingers, axis \in {"x", "z"}}
    \cup {<<finger \o ".intermediate", "x">> : finger \in Fingers}
    \cup {<<finger \o ".distal", "x">> : finger \in Fingers}

\* The components applyFingerRotations writes: the thumb also gets its
\* opposition (proximal y) and the abduction of its intermediate bone.
AppliedFingerComponents ==
  ResetFingerComponents
    \cup {<<"thumb.proximal", "y">>, <<"thumb.intermediate", "z">>}

Sides == {"left", "right"}

\* <<side, bone, axis>> of every component the avatar drives.
Rotations3D ==
  {<<side, c[1], c[2]>> : side \in Sides, c \in ArmComponents \cup AppliedFingerComponents}

\* The scene is loaded with its bones at their bind rotation; the effect of
\* MixamoAvatar has not yet looked for the bones.
AvatarMounted ==
  /\ isReady = FALSE
  /\ bones = [j \in Rotations3D |-> 0]
  /\ tick = [ran |-> FALSE]
  /\ ticks = 0

\* No pure function is under study.
NoCall ==
  /\ input = [fn |-> "none"]
  /\ output = [done |-> FALSE]

\* The bone at its bind rotation.
BoneAtRest ==
  /\ boneRotation = 0
  /\ targetRotation = 0
  /\ smoothSteps = 0

Init ==
  /\ HookInit
  /\ NoLoad
  /\ CameraClosed
  /\ AvatarMounted
  /\ NoCall
  /\ BoneAtRest

ParseCSVKeepsCursor(clip) ==
  /\ frames' = clip
  /\ currentFrame' = currentFrame
  /\ isPlaying' = TRUE
  /\ UNCHANGED <<fps, animationRef, lastTimeRef, now, rendered, raf>>
  /\ NoteOp

\* parseCSV, run from reader.onload or after the awaited fetch: the parsed
\* rows (possibly none) replace the clip; the render follows in a later task.
ParseCSV(clip) ==
  /\ frames' = clip
  /\ currentFrame' = 0
  /\ isPlaying' = TRUE
  /\ UNCHANGED <<fps, animationRef, lastTimeRef, now, rendered, raf>>
  /\ NoteOp

\* loadFrames, called from the "use recording" click with a non-empty recording.
LoadFrames(clip) ==
  /\ frames' = clip
  /\ currentFrame' = 0
  /\ isPlaying' = TRUE
  /\ UNCHANGED <<fps, lastTimeRef, now>>
  /\ NoteOp
  /\ Render

\* play and pause are returned by the hook; no component binds them.
Play ==
  /\ isPlaying' = TRUE
  /\ UNCHANGED <<frames, currentFrame, fps, lastTimeRef, now>>
  /\ UNCHANGED <<loadVars, captureVars, dataVars, smoothVars, nameVars, avatarVars>>
  /\ NoteOp
  /\ Render

Pause ==
  /\ isPlaying' = FALSE
  /\ UNCHANGED <<frames, currentFrame, fps, lastTimeRef, now>>
  /\ UNCHANGED <<loadVars, captureVars, dataVars, smoothVars, nameVars, avatarVars>>
  /\ NoteOp
  /\ Render

\* togglePlay, bound to the play/pause button.
TogglePlay ==
  /\ ControlsEnabled
  /\ isPlaying' = ~isPlaying
  /\ UNCHANGED <<frames, currentFrame, fps, lastTimeRef, now>>
  /\ UNCHANGED <<loadVars, captureVars, dataVars, smoothVars, nameVars, avatarVars>>
  /\ NoteOp
  /\ Render

\* reset, bound to the reset button.
Reset ==
  /\ ControlsEnabled
  /\ currentFrame' = 0
  /\ isPlaying' = FALSE
  /\ UNCHANGED <<frames, fps, lastTimeRef, now>>
  /\ UNCHANGED <<loadVars, captureVars, dataVars, smoothVars, nameVars, avatarVars>>
  /\ NoteOp
  /\ Render

SetFramePauses(frame) ==
  /\ ControlsEnabled
  /\ currentFrame' = Max2(0, Min2(frame, rendered.len - 1))
  /\ isPlaying' = FALSE
  /\ UNCHANGED <<frames, fps, lastTimeRef, now>>
  /\ UNCHANGED <<loadVars, captureVars, dataVars, smoothVars, nameVars, avatarVars>>
  /\ NoteOp
  /\ Render

\* setFrame: Math.max(0, Math.min(frame, frames.length - 1)) with the
\* frames.length of the render that created the callback.  It is bound to the
\* frame slider and to the first/last buttons.
SetFrame(frame) ==
  /\ ControlsEnabled
  /\ currentFrame' = Max2(0, Min2(frame, rendered.len - 1))
  /\ UNCHANGED <<frames, isPlaying, fps, lastTimeRef, now>>
  /\ UNCHANGED <<loadVars, captureVars, dataVars, smoothVars, nameVars, avatarVars>>
  /\ NoteOp
  /\ Render

FpsSliderWide == FpsMin..(2 * FpsMax)

\* The values the speed slider can emit: min 5, max 30, step 1.
FpsSliderValues == FpsMin..FpsMax

\* onValueChange of the speed slider -> setFps, on a key or pointer press (a
\* discrete event).
SetFps(v) ==
  /\ ControlsEnabled
  /\ v \in FpsSliderValues
  /\ fps' = v
  /\ UNCHANGED <<frames, currentFrame, isPlaying, lastTimeRef, now>>
  /\ UNCHANGED <<loadVars, captureVars, dataVars, smoothVars, nameVars, avatarVars>>
  /\ NoteOp
  /\ Render

\* The render of a pending update, with the effect.
Commit ==
  /\ RenderPending
  /\ UNCHANGED <<frames, currentFrame, isPlaying, fps, lastTimeRef, now, advances>>
  /\ UNCHANGED <<loadVars, captureVars, dataVars, smoothVars, nameVars, avatarVars>>
  /\ Render

\* The frame the updater of animate returns, with the effect's frames.length.
NextFrame(prev, len) == IF prev + 1 >= len THEN 0 ELSE prev + 1

\* One animation callback at timestamp now + dt, with the closure the effect
\* gave it; it schedules itself again.  A pending render follows it.
AnimateUpTo(dt, limit) ==
  LET timestamp == now + dt
      due == (timestamp - lastTimeRef) * raf.fps >= MsPerSecond
  IN /\ raf.live
     /\ timestamp <= limit
     /\ now' = timestamp
     /\ currentFrame' = IF due THEN NextFrame(currentFrame, raf.len) ELSE currentFrame
     /\ lastTimeRef' = IF due THEN timestamp ELSE lastTimeRef
     /\ advances' = IF ~due THEN advances
                    ELSE IF currentFrame = 0 THEN 1
                    ELSE IF advances = -1 THEN -1 ELSE advances + 1
     /\ UNCHANGED <<frames, isPlaying, fps>>
     /\ UNCHANGED <<loadVars, captureVars, dataVars, smoothVars, nameVars, avatarVars>>
     /\ IF RenderPending
        THEN RenderFrom(TRUE, raf)
        ELSE /\ raf' = raf
             /\ animationRef' = TRUE
             /\ rendered' = rendered

Animate(dt) == AnimateUpTo(dt, MaxTime)

\* A load by loadFile or loadFromUrl delivers its text: reader.onload or the
\* continuation of the awaited fetch runs parseCSV.  The loading indicator
\* and the file name are followed in SpecLoad only.
TextLoaded(clip) ==
  /\ ParseCSV(clip)
  /\ UNCHANGED <<loadVars, captureVars, dataVars, smoothVars, nameVars, avatarVars>>

\* onFramesCaptured of Index: the frames CameraCapture hands over go to
\* loadFrames.  The recorder and the file name are followed in SpecCapture
\* and SpecLoad only.
FramesCaptured(clip) ==
  /\ LoadFrames(clip)
  /\ UNCHANGED <<loadVars, captureVars, dataVars, smoothVars, nameVars, avatarVars>>

Next ==
  \/ \E dt \in HostGaps : Animate(dt)
  \/ \E frame \in SeekInputs : SetFrame(frame)
  \/ \E v \in FpsSliderValues : SetFps(v)
  \/ Play
  \/ Pause
  \/ TogglePlay
  \/ Reset
  \/ \E clip \in Clips : TextLoaded(clip)
  \/ \E clip \in NonEmptyClips : FramesCaptured(clip)
  \/ Commit

Spec == Init /\ [][Next]_vars

\* After the last advance that fits the window no further callback is taken:
\* playback observed from its first callback on, for RateWindow ms.
NextRate == \E dt \in RateGaps : AnimateUpTo(dt, RateWindow)

\* Uninterrupted playing of a RateLen-frame clip, observed from an advance at
\* time 0 that left the cursor at 0.
InitRate ==
  /\ frames = Clip(RateLen, "Happy")
  /\ currentFrame = 0
  /\ isPlaying = TRUE
  /\ fps \in RateFps
  /\ animationRef = TRUE
  /\ lastTimeRef = 0
  /\ now = 0
  /\ rendered = Deps(frames, TRUE, fps)
  /\ raf = [live |-> TRUE, len |-> RateLen, fps |-> fps]
  /\ advances = 0
  /\ NoLoad
  /\ CameraClosed
  /\ AvatarMounted
  /\ NoCall
  /\ BoneAtRest

SpecRate == InitRate /\ [][NextRate]_vars

----------------------------------------------------------------------------
(* Loading a clip: loadFile and loadFromUrl of the hook.  Loads overlap:   *)
(* nothing in the hook waits for, or cancels, a load in flight.  `settled` *)
(* is what the caller of the load can observe of its end: loadFromUrl is   *)
(* an async function, whose promise resolves or rejects; loadFile returns  *)
(* at once and gives its caller nothing later.                             *)

\* url.split('/').pop() of the sample that Index loads on mount.
UrlNames == {"Happy_sign_data.csv"}

\* file.name of an uploaded file.
FileNames == {"upload.csv"}

UrlLoad(name) == [kind |-> "url", name |-> name]

FileLoad(name) == [kind |-> "file", name |-> name]

Loads == {UrlLoad(name) : name \in UrlNames} \cup {FileLoad(name) : name \in FileNames}

\* `${label}_captured.csv`, with the label useRecording passes.
CapturedName(label) == (IF label = "" THEN "Recorded" ELSE label) \o "_captured.csv"

\* The text a fetch or a file read delivers: CSV text with a header and
\* `rows` data rows, or text that is no CSV of landmarks (an HTML error
\* page, say), which Papa.parse still splits into a header line and rows.
Contents ==
  [parseable : {TRUE}, rows : 0..MaxLen, label : Labels]
    \cup [parseable : {FALSE}, rows : 0..MaxLen, label : {"undefined"}]

\* result.data.map(parseCSVRow): one frame per row; String(row.label) is
\* "undefined" for a row without a label column.
FramesOf(content) == Clip(content.rows, content.label)

\* loadFromUrl up to the awaited fetch.  While isLoading Index shows a
\* spinner in place of the visualization: MixamoAvatar is unmounted and
\* its state is dropped.
LoadFromUrl(name) ==
  /\ Cardinality(pending) < MaxPending
  /\ UrlLoad(name) \notin pending
  /\ isLoading' = TRUE
  /\ fileName' = name
  /\ pending' = pending \cup {UrlLoad(name)}
  /\ settled' = "none"
  /\ isReady' = FALSE
  /\ UNCHANGED <<loaded, bones, tick, ticks, playVars, captureVars, dataVars, smoothVars>>

\* loadFile up to reader.readAsText(file); the visualization is unmounted
\* as for loadFromUrl.
LoadFile(name) ==
  /\ Cardinality(pending) < MaxPending
  /\ FileLoad(name) \notin pending
  /\ isLoading' = TRUE
  /\ fileName' = name
  /\ pending' = pending \cup {FileLoad(name)}
  /\ settled' = "none"
  /\ isReady' = FALSE
  /\ UNCHANGED <<loaded, bones, tick, ticks, playVars, captureVars, dataVars, smoothVars>>

\* fetch or response.text() rejects: the catch logs to the console, then
\* setIsLoading(false); the async function returns normally.
FetchRejects(load) ==
  /\ load \in pending
  /\ load.kind = "url"
  /\ isLoading' = FALSE
  /\ pending' = pending \ {load}
  /\ settled' = "resolved"
  /\ UNCHANGED <<playVars, captureVars, dataVars, smoothVars, nameVars, avatarVars>>

\* fetch resolves, whatever the HTTP status: parseCSV(text), then
\* setIsLoading(false).
FetchDelivers(load, content) ==
  /\ load \in pending
  /\ load.kind = "url"
  /\ ParseCSV(FramesOf(content))
  /\ loaded' = load.name
  /\ isLoading' = FALSE
  /\ pending' = pending \ {load}
  /\ settled' = "resolved"
  /\ UNCHANGED <<fileName, captureVars, dataVars, smoothVars, avatarVars>>

\* reader.onload: parseCSV(text), then setIsLoading(false).
ReadCompletes(load, content) ==
  /\ load \in pending
  /\ load.kind = "file"
  /\ ParseCSV(FramesOf(content))
  /\ loaded' = load.name
  /\ isLoading' = FALSE
  /\ pending' = pending \ {load}
  /\ UNCHANGED <<fileName, settled, captureVars, dataVars, smoothVars, avatarVars>>

\* The read fails: the reader has no onerror handler, nothing runs.
ReadFails(load) ==
  /\ load \in pending
  /\ load.kind = "file"
  /\ pending' = pending \ {load}
  /\ UNCHANGED <<isLoading, settled, playVars, captureVars, dataVars, smoothVars,
                 nameVars, avatarVars>>

\* loadFrames(capturedFrames, `${label}_captured.csv`) of the hook, called
\* by Index with a recording.
LoadCaptured(clip) ==
  /\ LoadFrames(clip)
  /\ fileName' = CapturedName(clip[1])
  /\ loaded' = fileName'
  /\ UNCHANGED <<loadVars, captureVars, dataVars, smoothVars, avatarVars>>

\* The host ends the load, one way or the other.
Settle(load) ==
  \/ FetchRejects(load)
  \/ ReadFails(load)
  \/ \E content \in Contents : FetchDelivers(load, content)
  \/ \E content \in Contents : ReadCompletes(load, content)

NextLoad ==
  \/ \E name \in UrlNames : LoadFromUrl(name)
  \/ \E name \in FileNames : LoadFile(name)
  \/ \E load \in Loads : FetchRejects(load)
  \/ \E load \in Loads, content \in Contents : FetchDelivers(load, content)
  \/ \E load \in Loads, content \in Contents : ReadCompletes(load, content)
  \/ \E load \in Loads : ReadFails(load)
  \/ \E clip \in NonEmptyClips : LoadCaptured(clip)
  \/ Commit
  \/ TogglePlay
  \/ \E dt \in HostGaps : Animate(dt)

SpecLoad == Init /\ [][NextLoad]_vars

\* The host ends every load in flight.
SpecLoadFair == SpecLoad /\ \A load \in Loads : WF_vars(Settle(load))

----------------------------------------------------------------------------
(* Recording: CameraCapture, mounted by Index while showCamera is true.    *)
(* framesRef and recordingRef are refs, isRecording and recordedFrames are *)
(* state; the buttons are click handlers, after which React has rendered   *)
(* before the next click, so a button's visibility follows the state.      *)

\* What MediaPipe detects in one video frame.
Poses == {1, 2}

\* What the user types into the sign label field.
SignLabels == {"", "Hello"}

\* signLabel || 'Recorded'
LabelOf(label) == IF label = "" THEN "Recorded" ELSE label

\* The frame processResults records: the callback registered with onResults
\* is the one of the first render, whose signLabel is ''.
RecordedFrame(pose) == [label |-> "Recorded", pose |-> pose]

\* The "Camera" button of Index: setShowCamera(true) mounts CameraCapture.
OpenCamera ==
  /\ ~showCamera
  /\ showCamera' = TRUE
  /\ isRecording' = FALSE
  /\ recordingRef' = FALSE
  /\ framesRef' = << >>
  /\ recordedFrames' = << >>
  /\ signLabel' = ""
  /\ UNCHANGED <<playVars, loadVars, dataVars, smoothVars, nameVars, avatarVars>>

\* onClose: setShowCamera(false) unmounts CameraCapture and drops its state.
Unmount ==
  /\ showCamera' = FALSE
  /\ isRecording' = FALSE
  /\ recordingRef' = FALSE
  /\ framesRef' = << >>
  /\ recordedFrames' = << >>
  /\ signLabel' = ""

CloseCamera ==
  /\ showCamera
  /\ Unmount
  /\ UNCHANGED <<playVars, loadVars, dataVars, smoothVars, nameVars, avatarVars>>

\* The sign label field: onChange={(e) => setSignLabel(e.target.value)}.
SetSignLabel(label) ==
  /\ showCamera
  /\ signLabel' = label
  /\ UNCHANGED <<showCamera, isRecording, recordingRef, framesRef, recordedFrames,
                 playVars, loadVars, dataVars, smoothVars, nameVars, avatarVars>>

\* The start button is rendered while !isRecording.
StartRecording ==
  /\ showCamera
  /\ ~isRecording
  /\ framesRef' = << >>
  /\ recordedFrames' = << >>
  /\ recordingRef' = TRUE
  /\ isRecording' = TRUE
  /\ UNCHANGED <<showCamera, signLabel,
                 playVars, loadVars, dataVars, smoothVars, nameVars, avatarVars>>

\* The stop button is rendered while isRecording.
StopRecording ==
  /\ showCamera
  /\ isRecording
  /\ recordingRef' = FALSE
  /\ isRecording' = FALSE
  /\ UNCHANGED <<showCamera, framesRef, recordedFrames, signLabel,
                 playVars, loadVars, dataVars, smoothVars, nameVars, avatarVars>>

\* The "Use Recording" button is shown in this state.
CanUseRecordingWhileRecording == Len(recordedFrames) > 0

CanUseRecording == Len(recordedFrames) > 0 /\ ~isRecording

\* framesRef.current.push(frame)
Push(clip, frame) == Append(clip, frame)

\* processResults, called by MediaPipe for each video frame.
ProcessResults(pose) ==
  /\ showCamera
  /\ Len(framesRef) < MaxLen
  /\ IF recordingRef
       THEN /\ framesRef' = Push(framesRef, RecordedFrame(pose))
            /\ recordedFrames' = framesRef'
       ELSE UNCHANGED <<framesRef, recordedFrames>>
  /\ UNCHANGED <<showCamera, isRecording, recordingRef, signLabel,
                 playVars, loadVars, dataVars, smoothVars, nameVars, avatarVars>>

\* useRecording: onFramesCaptured(recordedFrames, ...) is loadFrames of the
\* hook, then onClose().
UseRecording ==
  /\ showCamera
  /\ CanUseRecording
  /\ Len(recordedFrames) > 0
  /\ LoadFrames(recordedFrames)
  /\ fileName' = CapturedName(signLabel)
  /\ loaded' = fileName'
  /\ Unmount
  /\ UNCHANGED <<loadVars, dataVars, smoothVars, avatarVars>>

NextCapture ==
  \/ OpenCamera
  \/ CloseCamera
  \/ StartRecording
  \/ StopRecording
  \/ \E pose \in Poses : ProcessResults(pose)
  \/ UseRecording
  \/ \E label \in SignLabels : SetSignLabel(label)
  \/ TogglePlay
  \/ \E dt \in HostGaps : Animate(dt)

SpecCapture == Init /\ [][NextCapture]_vars

----------------------------------------------------------------------------
(* Frames, CSV rows and the conversions between them                       *)
(*                                                                         *)
(* src/unnamed/part_000 is the version of types/hand-data.ts the hook and  *)
(* the components compile against: it is the only one whose HandFrame has  *)
(* the arms that useSignAnimation.downloadCSV reads.  A coordinate is an   *)
(* integer number of thousandths; a JavaScript value is a cell             *)
(* [kind, v, s]: its type, its numeric value and its text.                 *)

NLandmarks == 21

Unit == 1000

Zero3 == <<0, 0, 0>>

Undefined == [kind |-> "undefined", v |-> 0, s |-> ""]

Null == [kind |-> "null", v |-> 0, s |-> ""]

Num(n) == [kind |-> "number", v |-> n, s |-> ""]

Bool(b) == [kind |-> "boolean", v |-> IF b THEN Unit ELSE 0, s |-> IF b THEN "true" ELSE "false"]

\* A string whose text is a decimal number, and a string that is not.
NumText(n) == [kind |-> "numeric string", v |-> n, s |-> ""]

Text(t) == [kind |-> "string", v |-> 0, s |-> t]

NaN == [nan |-> TRUE, v |-> 0]

\* Number(value) of JavaScript.
Number(cell) ==
  CASE cell.kind = "undefined" -> NaN
    [] cell.kind = "null" -> [nan |-> FALSE, v |-> 0]
    [] cell.kind = "number" -> [nan |-> FALSE, v |-> cell.v]
    [] cell.kind = "boolean" -> [nan |-> FALSE, v |-> cell.v]
    [] cell.kind = "numeric string" -> [nan |-> FALSE, v |-> cell.v]
    [] cell.kind = "string" -> IF cell.s = "" THEN [nan |-> FALSE, v |-> 0] ELSE NaN

\* Number(value) || 0: NaN and 0 are falsy.
NumberOr0(cell) ==
  LET n == Number(cell) IN IF n.nan \/ n.v = 0 THEN 0 ELSE n.v

\* String(value) of JavaScript, for the values a label cell can hold.
String(cell) ==
  CASE cell.kind = "undefined" -> "undefined"
    [] cell.kind = "null" -> "null"
    [] cell.kind = "number" -> ToString(cell.v)   \* its digits, in thousandths
    [] cell.kind = "numeric string" -> ToString(cell.v)
    [] cell.kind = "boolean" -> cell.s
    [] cell.kind = "string" -> cell.s

\* row[key]: undefined when the row has no such column.
Get(row, key) == IF key \in DOMAIN row THEN row[key] ELSE Undefined

Col(prefix, i) == prefix \o ToString(i)

NoArm == [present |-> FALSE, shoulder |-> Zero3, elbow |-> Zero3, wrist |-> Zero3]

Triple(row, prefix) ==
  << NumberOr0(Get(row, prefix \o "_x")),
     NumberOr0(Get(row, prefix \o "_y")),
     NumberOr0(Get(row, prefix \o "_z")) >>

ParseArmZeroFilled(row, side) ==
  [present |-> TRUE,
   shoulder |-> Triple(row, side \o "_shoulder"),
   elbow |-> Triple(row, side \o "_elbow"),
   wrist |-> Triple(row, side \o "_wrist")]

\* The arm of one side ("LA" or "RA"): parsed when the row has the
\* shoulder_x column of that side.
ParseArm(row, side) ==
  IF Get(row, side \o "_shoulder_x") # Undefined
  THEN [present |-> TRUE,
        shoulder |-> Triple(row, side \o "_shoulder"),
        elbow |-> Triple(row, side \o "_elbow"),
        wrist |-> Triple(row, side \o "_wrist")]
  ELSE NoArm

ParseHand(row, side) ==
  [i \in 1..NLandmarks |->
    << NumberOr0(Get(row, Col(side \o "_x", i - 1))),
       NumberOr0(Get(row, Col(side \o "_y", i - 1))),
       NumberOr0(Get(row, Col(side \o "_z", i - 1))) >>]

parseCSVRow(row) ==
  [label |-> String(Get(row, "label")),
   leftHand |-> ParseHand(row, "L"),
   rightHand |-> ParseHand(row, "R"),
   leftArm |-> ParseArm(row, "LA"),
   rightArm |-> ParseArm(row, "RA")]

(* CSV text: a header, a sequence of column names, and rows, sequences of  *)
(* fields in the order of the header.  Labels hold no comma, quote or line *)
(* break, so that join(',') and the parser's split agree on the fields.    *)

Axes == <<"x", "y", "z">>

Joints == <<"shoulder", "elbow", "wrist">>

\* The text Array.prototype.join writes for a number, and for a label.
FieldOfNumber(n) == NumText(n)

FieldOfLabel(label) == Text(label)

\* L_x0, L_y0, L_z0, L_x1, ...
HandHeader(side) ==
  [k \in 1..(3 * NLandmarks) |->
    Col(side \o "_" \o Axes[((k - 1) % 3) + 1], (k - 1) \div 3)]

\* LA_shoulder_x, LA_shoulder_y, ..., LA_wrist_z
ArmHeader(side) ==
  [k \in 1..9 |->
    side \o "_" \o Joints[((k - 1) \div 3) + 1] \o "_" \o Axes[((k - 1) % 3) + 1]]

\* downloadCSV of the hook: 21 landmarks per hand, a missing landmark as
\* 0,0,0.
HandFields(hand) ==
  [k \in 1..(3 * NLandmarks) |->
    LET i == ((k - 1) \div 3) + 1
        c == ((k - 1) % 3) + 1
    IN FieldOfNumber(IF i <= Len(hand) THEN hand[i][c] ELSE 0)]

\* downloadCSV of the hook: the arm's nine numbers, or nine zeros for an
\* absent arm.
ArmFields(arm) ==
  [k \in 1..9 |->
    LET j == Joints[((k - 1) \div 3) + 1]
        c == ((k - 1) % 3) + 1
    IN FieldOfNumber(IF arm.present THEN arm[j][c] ELSE 0)]

downloadCSV(clip) ==
  [header |-> <<"label">> \o HandHeader("L") \o HandHeader("R")
                \o ArmHeader("LA") \o ArmHeader("RA"),
   rows |-> [r \in 1..Len(clip) |->
              <<FieldOfLabel(clip[r].label)>>
                \o HandFields(clip[r].leftHand) \o HandFields(clip[r].rightHand)
                \o ArmFields(clip[r].leftArm) \o ArmFields(clip[r].rightArm)]]

\* downloadCSV of CameraCapture: the landmarks each hand has, no arm column.
CameraHandFields(hand) ==
  [k \in 1..(3 * Len(hand)) |->
    FieldOfNumber(hand[((k - 1) \div 3) + 1][((k - 1) % 3) + 1])]

CameraDownloadCSV(clip) ==
  [header |-> <<"label">> \o HandHeader("L") \o HandHeader("R"),
   rows |-> [r \in 1..Len(clip) |->
              <<FieldOfLabel(clip[r].label)>>
                \o CameraHandFields(clip[r].leftHand)
                \o CameraHandFields(clip[r].rightHand)]]

\* dynamicTyping of Papa.parse: true/false become booleans, decimal numbers
\* become numbers, the empty field becomes null, other text stays a string.
DynamicType(field) ==
  IF field.kind = "numeric string" THEN Num(field.v)
  ELSE IF field.s \in {"true", "TRUE"} THEN Bool(TRUE)
  ELSE IF field.s \in {"false", "FALSE"} THEN Bool(FALSE)
  ELSE IF field.s = "" THEN Null
  ELSE field

\* header: true of Papa.parse: one object per row, keyed by the header; a
\* row shorter than the header has no key for the columns it lacks.
RowObject(header, fields) ==
  LET n == Min2(Len(header), Len(fields))
  IN [key \in {header[i] : i \in 1..n} |->
       DynamicType(fields[CHOOSE i \in 1..n : header[i] = key])]

\* parseCSV up to setFrames: Papa.parse, then parseCSVRow on every row.
ParseRows(csv) ==
  [r \in 1..Len(csv.rows) |-> parseCSVRow(RowObject(csv.header, csv.rows[r]))]

(* The remaining pure functions of the frame data *)

\* isHandVisible(landmarks | null): some landmark has x !== 0 or y !== 0.
isHandVisibleWithZ(landmarks) ==
  /\ ~landmarks.isNull
  /\ Len(landmarks.points) # 0
  /\ \E i \in 1..Len(landmarks.points) :
       landmarks.points[i][1] # 0 \/ landmarks.points[i][2] # 0
         \/ landmarks.points[i][3] # 0

isHandVisible(landmarks) ==
  /\ ~landmarks.isNull
  /\ Len(landmarks.points) # 0
  /\ \E i \in 1..Len(landmarks.points) :
       landmarks.points[i][1] # 0 \/ landmarks.points[i][2] # 0

\* isArmValid(arm?): the arm is given, and shoulder.some(v => v !== 0) and
\* elbow.some(v => v !== 0).
isArmValidWithWrist(arm) ==
  /\ arm.present
  /\ \E c \in 1..3 : arm.shoulder[c] # 0
  /\ \E c \in 1..3 : arm.elbow[c] # 0
  /\ \E c \in 1..3 : arm.wrist[c] # 0

isArmValid(arm) ==
  /\ arm.present
  /\ \E c \in 1..3 : arm.shoulder[c] # 0
  /\ \E c \in 1..3 : arm.elbow[c] # 0

\* normalizeCoordinates of types/hand-data.ts (scale is a whole number):
\* x is centred only, y is flipped and centred, z changes sign.
normalizeCoordinates(landmarks, scale) ==
  IF landmarks.isNull \/ Len(landmarks.points) = 0 THEN << >>
  ELSE [i \in 1..Len(landmarks.points) |->
         << (landmarks.points[i][1] - Unit \div 2) * scale,
            (Unit - landmarks.points[i][2] - Unit \div 2) * scale,
            (0 - landmarks.points[i][3]) * scale >>]

\* normalizeLandmarksFor3D of Avatar3D.tsx: x is mirrored as well.
normalizeLandmarksFor3D(landmarks, scale) ==
  IF landmarks.isNull \/ Len(landmarks.points) = 0 THEN << >>
  ELSE [i \in 1..Len(landmarks.points) |->
         << (Unit - landmarks.points[i][1] - Unit \div 2) * scale,
            (Unit - landmarks.points[i][2] - Unit \div 2) * scale,
            (0 - landmarks.points[i][3]) * scale >>]

(* The two-bone arm solver of Avatar3D.tsx.  Lengths are in thousandths of *)
(* a scene unit and cosines in thousandths; the square root is rounded     *)
(* down and a quotient is rounded down, where JavaScript rounds a double.  *)
(* The rotations the solver returns are acos, asin and atan2 of the values *)
(* kept here, and Math.atan2 is defined for every pair of numbers.         *)

shoulderWidth == 180

shoulderHeight == 350

upperArmLength == 280

forearmLength == 250

\* Larger than every number of the model.
Infinity == Unit * Unit * Unit

Abs(x) == IF x < 0 THEN 0 - x ELSE x

\* Math.sqrt, rounded down.
Sqrt(n) == CHOOSE r \in 0..n : r * r <= n /\ (r + 1) * (r + 1) > n

\* a / b of JavaScript: 0 / 0 is NaN and x / 0 is an infinity.
Quot(a, b) ==
  IF b # 0 THEN [nan |-> FALSE, v |-> a \div b]
  ELSE IF a = 0 THEN NaN
  ELSE [nan |-> FALSE, v |-> IF a > 0 THEN Infinity ELSE 0 - Infinity]

\* THREE.MathUtils.clamp(value, min, max) = Math.max(min, Math.min(max, value)):
\* NaN stays NaN.
MathClamp(x, lo, hi) ==
  IF x.nan THEN x ELSE [nan |-> FALSE, v |-> Max2(lo, Min2(hi, x.v))]

Neg(x) == IF x.nan THEN x ELSE [nan |-> FALSE, v |-> 0 - x.v]

ReachUnclamped(distance, minDist, maxDist) == distance

\* distance = THREE.MathUtils.clamp(distance, minDist, maxDist)
Reach(distance, minDist, maxDist) == Max2(minDist, Min2(maxDist, distance))

solveArmIK(targetPos, isLeftArm) ==
  LET shoulderX == IF isLeftArm THEN 0 - shoulderWidth ELSE shoulderWidth
      shoulderPos == <<shoulderX, shoulderHeight, 0>>
      upperLen == upperArmLength
      lowerLen == forearmLength
      totalLen == upperLen + lowerLen
      shoulderToTarget == [c \in 1..3 |-> targetPos[c] - shoulderPos[c]]
      length == Sqrt(shoulderToTarget[1] * shoulderToTarget[1]
                       + shoulderToTarget[2] * shoulderToTarget[2]
                       + shoulderToTarget[3] * shoulderToTarget[3])
      minDist == Abs(upperLen - lowerLen) \div 2
      maxDist == (totalLen * 95) \div 100
      distance == Reach(length, minDist, maxDist)
      \* Vector3.normalize(): divideScalar(length() || 1)
      normalizeBy == IF length = 0 THEN Unit ELSE length
      directionY == Quot(shoulderToTarget[2] * Unit, normalizeBy)
      elbowBy == 2 * upperLen * lowerLen
      cosElbow == Quot((upperLen * upperLen + lowerLen * lowerLen
                          - distance * distance) * Unit, elbowBy)
      shoulderBy == 2 * upperLen * distance
      cosShoulder == Quot((upperLen * upperLen + distance * distance
                             - lowerLen * lowerLen) * Unit, shoulderBy)
  IN [length |-> length,
      distance |-> distance,
      shoulderToTarget |-> shoulderToTarget,
      cosines |-> <<cosElbow, cosShoulder>>,
      divisors |-> <<normalizeBy, elbowBy, shoulderBy>>,
      acosArgs |-> <<MathClamp(cosElbow, 0 - Unit, Unit),
                     MathClamp(cosShoulder, 0 - Unit, Unit)>>,
      asinArg |-> MathClamp(Neg(directionY), 0 - Unit, Unit)]

----------------------------------------------------------------------------
(* The pure functions, applied to inputs drawn from bounded sets *)

Points == {Zero3, <<300, 400, -100>>, <<0, 0, -100>>, <<0, 400, 0>>}

\* 21 landmarks, all at `base` but landmark k (counted from 1) at p.
Hand(base, k, p) == [i \in 1..NLandmarks |-> IF i = k THEN p ELSE base]

HandInputs ==
  {Hand(Zero3, k, p) : k \in {1, NLandmarks}, p \in Points}
    \cup {Hand(<<300, 400, -100>>, 1, Zero3)}

Arm(s, e, w) == [present |-> TRUE, shoulder |-> s, elbow |-> e, wrist |-> w]

ArmInputs == {NoArm} \cup {Arm(s, e, w) : s \in Points, e \in Points, w \in Points}

\* The value a landmarks parameter holds: null, or an array of points.
NullLandmarks == [isNull |-> TRUE, points |-> << >>]

Landmarks(points) == [isNull |-> FALSE, points |-> points]

handReachScale == 1200

naturalOffset == 100

\* landmarkTo3D: the wrist landmark as a target in avatar space.  x is
\* centred and not mirrored; the depth only pushes the hand forward.
landmarkTo3D(x, y, z, isLeftHand) ==
  << ((x - Unit \div 2) * handReachScale) \div Unit,
     ((((Unit \div 2 - y) * handReachScale) \div Unit) * 8) \div 10,
     Unit \div 4 + (Max2(0, 0 - z) * 15) \div 100 >>

\* An angle coef * atan2(a, b) + plus, with <<a, b>> kept unevaluated.
Angle(coef, a, b, plus) == [coef |-> coef, atan2 |-> <<a, b>>, plus |-> plus]

Negated(angle) == Angle(0 - angle.coef, angle.atan2[1], angle.atan2[2], 0 - angle.plus)

\* The rotation useFrame gives the arm bones of one side from solveArmIK:
\* the right arm takes upperArmRotation.z negated.  Math.atan2 does not
\* depend on the length of its argument vector, so the vector from the
\* shoulder to the target stands for the normalized direction; the fixed
\* factors of the pitch, the yaw and the elbow bend are left out.
ArmRotation(targetPos, isLeftArm) ==
  LET ik == solveArmIK(targetPos, isLeftArm)
      toTarget == ik.shoulderToTarget
      sideSign == IF isLeftArm THEN -1 ELSE 1
      yaw == Angle(1, Abs(toTarget[3]),
                   Sqrt(toTarget[1] * toTarget[1] + toTarget[3] * toTarget[3]), 0)
      spread == Angle(1, sideSign * toTarget[1], 0 - toTarget[2],
                      IF isLeftArm THEN naturalOffset ELSE 0 - naturalOffset)
  IN [x |-> [asin |-> ik.asinArg, acos |-> ik.acosArgs[2]],
      y |-> yaw,
      z |-> IF isLeftArm THEN spread ELSE Negated(spread),
      elbow |-> [acos |-> ik.acosArgs[1]]]

(* The way of a tracked point from the camera to the scene *)

\* processResults stores [1.0 - lm.x, lm.y, lm.z] for hands and arms.
Captured(p) == <<Unit - p[1], p[2], p[3]>>

\* normalize of ArmSkeleton (scale is a whole number): x is mirrored.
ArmSkeletonNormalize(coord, scale) ==
  << (Unit - coord[1] - Unit \div 2) * scale,
     (Unit - coord[2] - Unit \div 2) * scale,
     (0 - coord[3]) * scale >>

\* getWristPosition of HandVisualization: x is centred only.
getWristPosition(arm, scale) ==
  << (arm.wrist[1] - Unit \div 2) * scale,
     (Unit - arm.wrist[2] - Unit \div 2) * scale,
     (0 - arm.wrist[3]) * scale >>

\* The scene coordinates each consumer gives a tracked point.
CameraToScene(p) ==
  LET c == Captured(p)
  IN [hand |-> normalizeCoordinates(Landmarks(<<c>>), 3)[1],
      armSkeleton |-> ArmSkeletonNormalize(c, 3),
      wristPosition |-> getWristPosition(Arm(c, c, c), 3),
      avatarTarget |-> landmarkTo3D(c[1], c[2], c[3], TRUE),
      avatarFingers |-> normalizeLandmarksFor3D(Landmarks(<<c>>), 3)[1]]

\* [1.5, 0, 0] for the left hand, [-1.5, 0, 0] for the right hand.
DefaultPosition(side) ==
  IF side = "left" THEN <<(3 * Unit) \div 2, 0, 0>> ELSE <<0 - (3 * Unit) \div 2, 0, 0>>

Plus3(p, q) == <<p[1] + q[1], p[2] + q[2], p[3] + q[3]>>

\* Scene of HandVisualization for one side: where the hand group is put,
\* where the wrist landmark of the hand comes to lie (Hand3D draws nothing
\* for a hand that is not visible), and where ArmSkeleton ends the forearm.
HandsScene(hand, arm, side, showArms) ==
  LET hasArm == showArms /\ isArmValid(arm)
      position == IF hasArm THEN getWristPosition(arm, 3) ELSE DefaultPosition(side)
      visible == isHandVisible(Landmarks(hand))
      coords == normalizeCoordinates(Landmarks(hand), 3)
      \* centerOnWrist: every point minus the wrist
      wrist == IF hasArm THEN Zero3 ELSE coords[1]
  IN [hasArm |-> hasArm,
      position |-> position,
      drawn |-> visible,
      handWrist |-> IF visible THEN Plus3(position, wrist) ELSE Zero3,
      skeletonWrist |-> IF hasArm THEN ArmSkeletonNormalize(arm.wrist, 3) ELSE Zero3]

LandmarkInputs ==
  {NullLandmarks, Landmarks(<< >>), Landmarks(<< <<300, 400, -100>> >>)}
    \cup {Landmarks(h) : h \in HandInputs}

ScaleInputs == {1, 3}

FrameInputs ==
  [label : Labels,
   leftHand : {Hand(Zero3, 1, Zero3), Hand(Zero3, 1, <<300, 400, -100>>)},
   rightHand : {Hand(Zero3, 1, Zero3), Hand(<<300, 400, -100>>, 1, Zero3)},
   leftArm : {NoArm, Arm(<<300, 400, -100>>, <<0, 400, 0>>, Zero3)},
   rightArm : {NoArm, Arm(<<0, 400, 0>>, <<300, 400, -100>>, <<0, 0, -100>>)}]

\* Clips of one frame, and of two frames with the arms of the first only.
ClipInputs ==
  {<<f>> : f \in FrameInputs}
    \cup {<<f, [f EXCEPT !.leftArm = NoArm, !.rightArm = NoArm]>> : f \in FrameInputs}

\* The row object of a frame with every column, as the parser delivers it.
FullRow ==
  LET csv == downloadCSV(<<[label |-> "Happy",
                            leftHand |-> Hand(<<300, 400, -100>>, 1, Zero3),
                            rightHand |-> Hand(<<300, 400, -100>>, 1, Zero3),
                            leftArm |-> Arm(<<300, 400, -100>>, <<0, 400, 0>>, Zero3),
                            rightArm |-> Arm(<<300, 400, -100>>, <<0, 400, 0>>, Zero3)]>>)
  IN RowObject(csv.header, csv.rows[1])

Columns(header) == {header[i] : i \in 1..Len(header)}

ArmColumns(side) == Columns(ArmHeader(side))

HandColumns(side) == Columns(HandHeader(side))

\* The row without the columns in `keys`.
Without(row, keys) == [key \in (DOMAIN row) \ keys |-> row[key]]

\* The values a cell of a parsed row can hold: Papa.parse with dynamicTyping
\* delivers numbers, booleans, null and strings.
CellInputs ==
  {Null, Num(0), Num(300), Bool(TRUE), Bool(FALSE), Text("abc"), Text(""), NumText(300)}

ProbeColumns == {"L_x0", "L_z20", "R_y7", "LA_shoulder_x", "RA_wrist_z"}

DroppedColumns ==
  {ArmColumns("LA"), ArmColumns("RA"), ArmColumns("LA") \cup ArmColumns("RA"),
   {"LA_shoulder_x"}, ArmColumns("RA") \ {"RA_shoulder_x"},
   HandColumns("L"), HandColumns("L") \cup HandColumns("R"),
   {"L_x0"}, {"R_y7", "R_z7"}, {"label"}, DOMAIN FullRow}

RowInputs ==
  {[FullRow EXCEPT ![key] = cell] : key \in ProbeColumns, cell \in CellInputs}
    \cup {Without(FullRow, keys) : keys \in DroppedColumns}

\* Wrist targets around the shoulder of either arm: at the shoulder, nearer
\* than the shortest reach, within reach and beyond the full arm.
IKOffsets == {-600, -10, 0, 10, 300}

IKInputs ==
  {[fn |-> "solveArmIK",
    targetPos |-> <<(IF left THEN 0 - shoulderWidth ELSE shoulderWidth) + dx,
                    shoulderHeight + dy, dz>>,
    isLeftArm |-> left] :
     left \in BOOLEAN, dx \in IKOffsets, dy \in IKOffsets, dz \in IKOffsets}

\* Wrist landmarks of a left hand; its mirror image is the right hand's.
\* The values make every quotient of landmarkTo3D exact.
MirrorInputs ==
  {[fn |-> "mirroredArms", wrist |-> <<x, y, z>>] :
     x \in {300, 500, 650}, y \in {250, 400, 750}, z \in {-100, 0}}

\* Points as the tracker reports them.
TrackedInputs ==
  {[fn |-> "cameraToScene", point |-> <<x, y, z>>] :
     x \in {0, 300, 500, 700}, y \in {400}, z \in {-100, 0}}

SceneInputs ==
  {[fn |-> "handsScene", hand |-> h, arm |-> a, side |-> side, showArms |-> show] :
     h \in {Hand(Zero3, 1, Zero3), Hand(<<300, 400, -100>>, 1, <<700, 600, 0>>)},
     a \in {NoArm, Arm(<<300, 400, -100>>, <<0, 400, 0>>, <<700, 600, 0>>),
            Arm(<<300, 400, -100>>, <<0, 400, 0>>, <<500, 400, -100>>),
            Arm(<<300, 400, -100>>, Zero3, <<700, 600, 0>>)},
     side \in Sides, show \in BOOLEAN}

DataInputs ==
  {[fn |-> "roundTrip", exporter |-> e, clip |-> c] :
     e \in {"useSignAnimation", "CameraCapture"}, c \in ClipInputs}
    \cup {[fn |-> "parseCSVRow", row |-> r] : r \in RowInputs}
    \cup {[fn |-> "isHandVisible", landmarks |-> l] : l \in LandmarkInputs}
    \cup {[fn |-> "isArmValid", arm |-> a] : a \in ArmInputs}
    \cup {[fn |-> f, landmarks |-> l, scale |-> s] :
            f \in {"normalizeCoordinates", "normalizeLandmarksFor3D"},
            l \in LandmarkInputs, s \in ScaleInputs}
    \cup IKInputs
    \cup MirrorInputs
    \cup TrackedInputs
    \cup SceneInputs

Return(value) ==
  /\ ~output.done
  /\ output' = [done |-> TRUE, value |-> value]
  /\ UNCHANGED <<input, playVars, loadVars, captureVars, smoothVars, nameVars, avatarVars>>

\* The export of a clip, by the hook or by the camera dialog, read back by
\* parseCSV.
RoundTrip ==
  /\ input.fn = "roundTrip"
  /\ Return(ParseRows(IF input.exporter = "useSignAnimation"
                      THEN downloadCSV(input.clip)
                      ELSE CameraDownloadCSV(input.clip)))

CallParseCSVRow ==
  /\ input.fn = "parseCSVRow"
  /\ Return(parseCSVRow(input.row))

CallIsHandVisible ==
  /\ input.fn = "isHandVisible"
  /\ Return(isHandVisible(input.landmarks))

CallIsArmValid ==
  /\ input.fn = "isArmValid"
  /\ Return(isArmValid(input.arm))

CallNormalizeCoordinates ==
  /\ input.fn = "normalizeCoordinates"
  /\ Return(normalizeCoordinates(input.landmarks, input.scale))

CallNormalizeLandmarksFor3D ==
  /\ input.fn = "normalizeLandmarksFor3D"
  /\ Return(normalizeLandmarksFor3D(input.landmarks, input.scale))

CallSolveArmIK ==
  /\ input.fn = "solveArmIK"
  /\ Return(solveArmIK(input.targetPos, input.isLeftArm))

\* Both arms for wrists that are mirror images of each other in x.
CallMirroredArms ==
  /\ input.fn = "mirroredArms"
  /\ Return([left |-> ArmRotation(landmarkTo3D(input.wrist[1], input.wrist[2],
                                                input.wrist[3], TRUE), TRUE),
             right |-> ArmRotation(landmarkTo3D(Unit - input.wrist[1], input.wrist[2],
                                                 input.wrist[3], FALSE), FALSE)])

CallCameraToScene ==
  /\ input.fn = "cameraToScene"
  /\ Return(CameraToScene(input.point))

CallHandsScene ==
  /\ input.fn = "handsScene"
  /\ Return(HandsScene(input.hand, input.arm, input.side, input.showArms))

InitData ==
  /\ HookInit
  /\ NoLoad
  /\ CameraClosed
  /\ AvatarMounted
  /\ BoneAtRest
  /\ input \in DataInputs
  /\ output = [done |-> FALSE]

NextData ==
  \/ RoundTrip
  \/ CallParseCSVRow
  \/ CallIsHandVisible
  \/ CallIsArmValid
  \/ CallNormalizeCoordinates
  \/ CallNormalizeLandmarksFor3D
  \/ CallSolveArmIK
  \/ CallMirroredArms
  \/ CallCameraToScene
  \/ CallHandsScene

SpecData == InitData /\ [][NextData]_vars

----------------------------------------------------------------------------
(* Temporal smoothing of a bone rotation: useFrame of MixamoAvatar.  One   *)
(* rotation component is followed; its values are whole multiples of       *)
(* LerpDen^MaxSmoothSteps, so that each of MaxSmoothSteps steps is exact.  *)

MaxSmoothSteps == 3

RotationSpan == 3

\* const lerp = 0.25, as LerpNum / LerpDen.
LerpNum == 1

LerpDen == 4

Grain == LerpDen ^ MaxSmoothSteps

Rotations == {k * Grain : k \in (0 - RotationSpan)..RotationSpan}

MathLerpOvershoot(x, y) == ((LerpDen + LerpNum) * y - LerpNum * x) \div LerpDen

\* THREE.MathUtils.lerp(x, y, lerp) = (1 - lerp) * x + lerp * y
MathLerp(x, y) == ((LerpDen - LerpNum) * x + LerpNum * y) \div LerpDen

\* One useFrame callback: bone.rotation = lerp(bone.rotation, target, lerp).
UseFrame ==
  /\ smoothSteps < MaxSmoothSteps
  /\ boneRotation' = MathLerp(boneRotation, targetRotation)
  /\ smoothSteps' = smoothSteps + 1
  /\ UNCHANGED <<targetRotation, playVars, loadVars, captureVars, dataVars,
                 nameVars, avatarVars>>

InitSmooth ==
  /\ HookInit
  /\ NoLoad
  /\ CameraClosed
  /\ AvatarMounted
  /\ NoCall
  /\ boneRotation \in Rotations
  /\ targetRotation \in Rotations
  /\ smoothSteps = 0

NextSmooth == UseFrame

SpecSmooth == InitSmooth /\ [][NextSmooth]_vars

----------------------------------------------------------------------------
(* The avatar: MixamoAvatar of Avatar3D.  Index shows it while no load is  *)
(* in flight (isLoading false); the bones belong to the scene that useGLTF *)
(* caches, so their rotations outlive the component.  A frame of a clip is *)
(* known by its label: the clips of the model are homogeneous.             *)

MaxTicks == 2

\* new THREE.Euler(0, 0, 0.05, 'XYZ').z
relaxedArmZ == 50

relaxedCurl == 150

\* The hands parseCSVRow gives the frames of a clip: the sample has a left
\* hand and an all-zero right hand, a recording has both hands, rows without
\* landmark columns give all-zero hands.
HandsOf(label) ==
  CASE label = "Happy" ->
         [leftHand |-> Hand(<<300, 400, -100>>, 1, <<300, 500, 0>>),
          rightHand |-> Hand(Zero3, 1, Zero3)]
    [] label = "Recorded" ->
         [leftHand |-> Hand(Zero3, NLandmarks, <<0, 400, 0>>),
          rightHand |-> Hand(<<300, 400, -100>>, 1, <<0, 0, -100>>)]
    [] OTHER ->
         [leftHand |-> Hand(Zero3, 1, Zero3), rightHand |-> Hand(Zero3, 1, Zero3)]

NullFrame == [isNull |-> TRUE]

\* const currentFrameData = frames[currentFrame] || null
currentFrameData ==
  IF currentFrame >= 0 /\ currentFrame < Len(frames)
    THEN [isNull |-> FALSE, label |-> frames[currentFrame + 1]]
           @@ HandsOf(frames[currentFrame + 1])
    ELSE NullFrame

HandOfSide(frame, side) == IF side = "left" THEN frame.leftHand ELSE frame.rightHand

GateFrameOnly(frame, side) == frame # NullFrame

\* frame && isHandVisible(frame.leftHand)
Gate(frame, side) ==
  frame # NullFrame /\ isHandVisible(Landmarks(HandOfSide(frame, side)))

\* The angle solveArmIK, calculateWristRotation or the finger pose gives for
\* a hand.  Its trigonometry is not evaluated here: the angle is stood for
\* by a number that tells the hands of the model apart.
PoseAngle(landmarks) == landmarks[1][2] + landmarks[NLandmarks][2] \div 2

\* The targets of the branch of a visible hand: the right arm takes the
\* spread and the roll of the wrist negated.
PosedTargets(landmarks, side) ==
  [c \in ArmComponents \cup AppliedFingerComponents |->
     IF side = "right" /\ c \in {<<"Arm", "z">>, <<"Hand", "z">>}
       THEN 0 - PoseAngle(landmarks)
       ELSE PoseAngle(landmarks)]

RelaxedFingerTarget(c) ==
  IF c[2] = "z" THEN 0
  ELSE IF c[1] \in {finger \o ".proximal" : finger \in Fingers} THEN relaxedCurl
  ELSE IF c[1] \in {finger \o ".intermediate" : finger \in Fingers}
    THEN (relaxedCurl * 5) \div 10
  ELSE (relaxedCurl * 3) \div 10

\* The targets of the relaxed branch: relaxedArm, relaxedForearm, a level
\* hand and resetFingerBones.
RelaxedTargets(side) ==
  [c \in ArmComponents \cup ResetFingerComponents |->
     IF c = <<"Arm", "z">>
       THEN (IF side = "right" THEN 0 - relaxedArmZ ELSE relaxedArmZ)
     ELSE IF c \in ArmComponents THEN 0
     ELSE RelaxedFingerTarget(c)]

\* The computations of the branch of a visible hand, with their arguments.
PoseCalls(frame, side) ==
  {[fn |-> fn, side |-> side, landmarks |-> HandOfSide(frame, side)] :
     fn \in {"solveArmIK", "calculateWristRotation", "applyFingerRotations"}}

TargetsOf(frame, side) ==
  IF Gate(frame, side)
    THEN PosedTargets(HandOfSide(frame, side), side)
    ELSE RelaxedTargets(side)

\* The effect, had each mount a scene of its own (a clone) instead of the
\* cached one.
FindBonesInFreshScene ==
  /\ ~isLoading
  /\ ~isReady
  /\ isReady' = TRUE
  /\ bones' = [j \in Rotations3D |-> 0]
  /\ UNCHANGED <<tick, ticks, playVars, loadVars, nameVars, captureVars,
                 dataVars, smoothVars>>

\* The effect that looks the bones up in the scene and calls
\* setIsReady(armBoneCount > 0): the rig has its arm bones.
FindBones ==
  /\ ~isLoading
  /\ ~isReady
  /\ isReady' = TRUE
  /\ UNCHANGED <<bones, tick, ticks, playVars, loadVars, nameVars, captureVars,
                 dataVars, smoothVars>>

\* One useFrame callback of MixamoAvatar.
RenderTick ==
  /\ ~isLoading
  /\ ticks < MaxTicks
  /\ ticks' = ticks + 1
  /\ IF ~isReady
       THEN /\ tick' = [ran |-> FALSE]
            /\ UNCHANGED bones
       ELSE LET frame == currentFrameData
                targets == [side \in Sides |-> TargetsOf(frame, side)]
            IN /\ bones' =
                    [j \in Rotations3D |->
                       IF <<j[2], j[3]>> \in DOMAIN targets[j[1]]
                         THEN MathLerp(bones[j], targets[j[1]][<<j[2], j[3]>>])
                         ELSE bones[j]]
               /\ tick' =
                    [ran |-> TRUE,
                     frame |-> frame,
                     calls |-> UNION {IF Gate(frame, side)
                                        THEN PoseCalls(frame, side)
                                        ELSE {} : side \in Sides},
                     targets |-> targets]
  /\ UNCHANGED <<isReady, playVars, loadVars, nameVars, captureVars, dataVars,
                 smoothVars>>

\* The texts and recordings loaded while the avatar is watched: the sample
\* of two frames, a page that is no CSV, and a recording of two frames.
AvatarContents ==
  {[parseable |-> TRUE, rows |-> 2, label |-> "Happy"],
   [parseable |-> FALSE, rows |-> 1, label |-> "undefined"]}

AvatarSeeks == {0, 1}

AvatarGaps == {100}

NextAvatar ==
  \/ FindBones
  \/ RenderTick
  \/ \E name \in FileNames : LoadFile(name)
  \/ \E load \in Loads, content \in AvatarContents : ReadCompletes(load, content)
  \/ LoadCaptured(Clip(2, "Recorded"))
  \/ \E frame \in AvatarSeeks : SetFrame(frame)
  \/ \E dt \in AvatarGaps : Animate(dt)
  \/ TogglePlay
  \/ Reset
  \/ Commit

SpecAvatar == Init /\ [][NextAvatar]_vars

----------------------------------------------------------------------------
(* Properties *)

Loaded == Len(frames) > 0

LastIndex == Len(frames) - 1

Clamp(x, lo, hi) == Max2(lo, Min2(x, hi))

LoadStep == \E clip \in Clips : ParseCSV(clip) \/ LoadFrames(clip)

\* A step of animate that advanced the cursor: only it writes lastTimeRef.
AdvanceStep == lastTimeRef' # lastTimeRef

\* C1: whenever a clip is loaded the cursor is an integer with
\* 0 <= currentFrame < frames.length.
C1_CursorInRange == Loaded => currentFrame \in 0..LastIndex

\* C2: playing implies that a non-empty clip is loaded.
C2_PlayingImpliesLoaded == isPlaying => Loaded

\* C3 (as stated): a load by parseCSV or loadFrames leaves the cursor at 0
\* and the scheduler paused.
C3_LoadLeavesPaused == [][LoadStep => (currentFrame' = 0 /\ ~isPlaying')]_vars

\* C3 (amended): a load by parseCSV or loadFrames, from any state, installs
\* the clip, resets the cursor to 0 and sets the playing flag.
C3_LoadLeavesPlaying ==
  [][\A clip \in Clips :
       (ParseCSV(clip) \/ LoadFrames(clip))
         => (frames' = clip /\ currentFrame' = 0 /\ isPlaying')]_vars

\* A parsed clip waiting for its render, loaded over a paused clip of another
\* length.
C3_Witness ==
  /\ RenderPending
  /\ rendered.len > 0 /\ ~rendered.isPlaying
  /\ Loaded /\ Len(frames) # rendered.len
  /\ currentFrame = 0 /\ isPlaying

\* C4: a tick in Loaded-Playing moves the cursor from i to i+1, or to 0 when
\* i is the last index, and the scheduler stays playing.
C4_TickAdvancesAndLoops ==
  [][(AdvanceStep /\ isPlaying /\ Loaded)
       => /\ isPlaying'
          /\ currentFrame' = IF currentFrame = LastIndex THEN 0
                             ELSE currentFrame + 1]_vars

\* C5: frames.length consecutive advances from cursor 0, with no other
\* operation in between, return the cursor to 0.
C5_LoopWraparound == (Loaded /\ advances = Len(frames)) => currentFrame = 0

\* C6: after RateWindow ms of uninterrupted playing at rate fps the cursor has
\* advanced by RateWindow * fps / 1000 frames (12 at fps = 12 on 24 frames),
\* whatever the gaps between the host's callbacks.
C6_ElapsedTimeRate ==
  (isPlaying /\ now = RateWindow)
    => currentFrame = ((RateWindow * fps) \div MsPerSecond) % Len(frames)

\* C7: setFrame(index) on a loaded clip of length n sets the cursor to index
\* clamped to [0, n-1], for every integer index.
C7_SeekClamps ==
  [][\A index \in SeekInputs :
       (Loaded /\ SetFrame(index))
         => currentFrame' = Clamp(index, 0, LastIndex)]_vars

\* C8: seek leaves the playing flag, fps and the clip unchanged; setFps
\* leaves the cursor, the playing flag and the clip unchanged; play and
\* pause leave the cursor, fps and the clip unchanged.
C8_ControlsFrame ==
  [][/\ (\E index \in SeekInputs : SetFrame(index))
          => UNCHANGED <<isPlaying, fps, frames>>
     /\ (\E v \in FpsSliderValues : SetFps(v))
          => UNCHANGED <<currentFrame, isPlaying, frames>>
     /\ (Play \/ Pause)
          => UNCHANGED <<currentFrame, fps, frames>>]_vars

\* Paused on the last frame of a clip of several frames at the highest rate,
\* no advance having ever happened: a seek, a rate change and a pause acted
\* on the clip loaded (which started playing at frame 0 and rate 12).
C8_Witness ==
  /\ Loaded /\ LastIndex > 0 /\ currentFrame = LastIndex
  /\ ~isPlaying
  /\ fps = FpsMax
  /\ lastTimeRef = 0

\* C9: while paused no tick advances the cursor, and the cursor changes only
\* through seek, reset or a clip load.
C9_PauseIsImmediate ==
  [][~isPlaying
       => /\ ~AdvanceStep
          /\ (currentFrame' # currentFrame)
               => \/ \E index \in SeekInputs : SetFrame(index)
                  \/ Reset
                  \/ LoadStep]_vars

\* Paused in the middle of a clip after at least one advance, the loop's
\* callback cancelled.
C9_Witness ==
  /\ ~isPlaying /\ Loaded
  /\ currentFrame > 0 /\ lastTimeRef > 0
  /\ animationRef /\ ~raf.live

----------------------------------------------------------------------------
(* Properties of the frame data functions, under SpecData *)

Returned(fn) == input.fn = fn /\ output.done

\* C11: export then import is lossless: the clip written by the CSV export
\* and parsed back is the same frame sequence, labels, landmarks and arms,
\* an absent arm staying absent.
C11_ExportImportLossless ==
  Returned("roundTrip") => output.value = input.clip

\* A cell that is missing, or holds a value that is not a number.
NonNumeric(cell) == cell.kind \in {"undefined", "null", "boolean", "string"}

HandOf(frame, side) == IF side = "L" THEN frame.leftHand ELSE frame.rightHand

\* C13: every parsed frame has exactly 21 landmarks of 3 numbers for each
\* hand, whatever columns the row has, and every missing or non-numeric
\* landmark cell is coerced to 0.
C13_RowParseCoercesToZero ==
  Returned("parseCSVRow") =>
    \A side \in {"L", "R"} :
      LET hand == HandOf(output.value, side)
      IN /\ Len(hand) = NLandmarks
         /\ \A i \in 1..NLandmarks :
              /\ Len(hand[i]) = 3
              /\ \A c \in 1..3 :
                   /\ hand[i][c] \in Int
                   /\ NonNumeric(Get(input.row, Col(side \o "_" \o Axes[c], i - 1)))
                        => hand[i][c] = 0

ArmOf(frame, side) == IF side = "LA" THEN frame.leftArm ELSE frame.rightArm

\* C14: a row without the arm columns of a side gives a frame whose arm of
\* that side is absent, not zero-filled; a row with the columns gives a
\* present arm.
C14_ArmAbsentWithoutColumns ==
  Returned("parseCSVRow") =>
    \A side \in {"LA", "RA"} :
      /\ (ArmColumns(side) \cap DOMAIN input.row = {})
           => ArmOf(output.value, side) = NoArm
      /\ (ArmColumns(side) \subseteq DOMAIN input.row)
           => ArmOf(output.value, side).present

\* A row without left arm columns and with the right arm columns, parsed.
C14_Witness ==
  /\ Returned("parseCSVRow")
  /\ ArmColumns("LA") \cap DOMAIN input.row = {}
  /\ ArmColumns("RA") \subseteq DOMAIN input.row
  /\ ~output.value.leftArm.present
  /\ output.value.rightArm.present

PointsOf(landmarks) == IF landmarks.isNull THEN << >> ELSE landmarks.points

\* C15: isHandVisible(landmarks) is true if and only if at least one
\* landmark has x != 0 or y != 0: null, empty, all-zero and z-only sets are
\* not visible.
C15_VisibleIffXorYNonZero ==
  Returned("isHandVisible") =>
    LET points == PointsOf(input.landmarks)
    IN output.value = (\E i \in 1..Len(points) : points[i][1] # 0 \/ points[i][2] # 0)

\* A hand whose only non-zero coordinate is a z, found not visible.
C15_Witness ==
  /\ Returned("isHandVisible")
  /\ ~input.landmarks.isNull
  /\ \E i \in 1..Len(input.landmarks.points) : input.landmarks.points[i][3] # 0
  /\ output.value = FALSE

NonZero(point) == \E c \in 1..3 : point[c] # 0

\* C16: an arm is valid if and only if it is present and both its shoulder
\* and its elbow have a non-zero coordinate; the wrist is not consulted.
C16_ArmValidIffShoulderAndElbow ==
  Returned("isArmValid") =>
    output.value = (/\ input.arm.present
                    /\ NonZero(input.arm.shoulder)
                    /\ NonZero(input.arm.elbow))

\* A present arm with shoulder and elbow set and an all-zero wrist, found
\* valid.
C16_Witness ==
  /\ Returned("isArmValid")
  /\ input.arm.present
  /\ NonZero(input.arm.shoulder) /\ NonZero(input.arm.elbow)
  /\ input.arm.wrist = Zero3
  /\ output.value = TRUE

\* C17: normalize maps every point (x, y, z) with scale s to
\* ((1 - x - 0.5) * s, (1 - y - 0.5) * s, -z * s), keeping the number and
\* the order of the points.
C17_NormalizeMirrorsAndFlips ==
  (output.done /\ input.fn \in {"normalizeCoordinates", "normalizeLandmarksFor3D"}) =>
    LET points == PointsOf(input.landmarks)
    IN /\ Len(output.value) = Len(points)
       /\ \A i \in 1..Len(points) :
            output.value[i] = << (Unit - points[i][1] - Unit \div 2) * input.scale,
                                 (Unit - points[i][2] - Unit \div 2) * input.scale,
                                 (0 - points[i][3]) * input.scale >>

InUnitRange(x) == ~x.nan /\ x.v >= 0 - Unit /\ x.v <= Unit

\* C19: for every wrist target solveArmIK divides by no zero and gives acos
\* and asin arguments within [-1, 1] only.
C19_IKNeverDegenerate ==
  Returned("solveArmIK") =>
    /\ \A d \in 1..Len(output.value.divisors) : output.value.divisors[d] # 0
    /\ \A a \in 1..Len(output.value.acosArgs) : InUnitRange(output.value.acosArgs[a])
    /\ InUnitRange(output.value.asinArg)

\* The solver returned for a target exactly at the shoulder.
C19_Witness ==
  /\ Returned("solveArmIK")
  /\ output.value.length = 0
  /\ output.value.distance > 0

----------------------------------------------------------------------------
(* Properties of the smoothing, under SpecSmooth *)

----------------------------------------------------------------------------
(* Properties of loading, under SpecLoad *)

\* A load that ends in a fetch rejection, a file read failure or content
\* that is no CSV of landmarks.
FailedLoad ==
  \E load \in Loads :
    \/ FetchRejects(load)
    \/ ReadFails(load)
    \/ \E content \in Contents :
         /\ ~content.parseable
         /\ (FetchDelivers(load, content) \/ ReadCompletes(load, content))

\* C12: a failed clip load is reported to the caller as a failure distinct
\* from success and leaves the playback state unchanged (from Empty the
\* scheduler remains Empty).
C12_FailedLoadReportedAndHarmless ==
  [][FailedLoad =>
       /\ settled' = "rejected"
       /\ UNCHANGED <<frames, currentFrame, isPlaying>>]_vars

\* C28: every load terminates the loading state: after loadFile or
\* loadFromUrl is called, isLoading eventually becomes false, whether the
\* read or fetch succeeds or fails.
C28_LoadingEnds == isLoading ~> ~isLoading

\* C29: whenever no load is in flight, fileName names the source of the
\* frames currently held: it is the name of the load that produced them.
C29_FileNameNamesFrames == pending = {} => fileName = loaded

----------------------------------------------------------------------------
(* Properties of recording, under SpecCapture *)

\* C20: recording is a write path separate from playback: while a recording
\* is in progress each arriving frame is appended at the end of the
\* recorder's own clip, a step of the recorder made while recording leaves
\* the playback clip, cursor and playing flag alone, and the playback clip
\* is replaced only by the recorded clip, after recording has stopped.
C20_RecordingSeparateFromPlayback ==
  [][/\ (recordingRef /\ recordingRef' /\ framesRef' # framesRef
           => /\ \E pose \in Poses :
                   framesRef' = Append(framesRef, RecordedFrame(pose))
              /\ recordedFrames' = framesRef')
     /\ ((recordingRef \/ recordingRef') /\ captureVars' # captureVars
           => UNCHANGED <<frames, currentFrame, isPlaying>>)
     /\ (frames' # frames
           => /\ ~recordingRef /\ ~isRecording
              /\ frames' = framesRef
              /\ Len(frames') > 0)]_vars

\* A recording of two different poses, stopped and handed to playback in
\* arrival order.
C20_Witness ==
  /\ ~showCamera
  /\ frames = <<RecordedFrame(2), RecordedFrame(1)>>
  /\ currentFrame = 0

----------------------------------------------------------------------------
(* Properties of the recorded labels, under SpecCapture *)

\* C30: every frame appended during a recording carries as label the sign
\* label entered at the time the frame is captured ('Recorded' only when
\* the field is empty).
C30_FrameCarriesCurrentLabel ==
  [][Len(framesRef') = Len(framesRef) + 1
       => framesRef'[Len(framesRef')].label = LabelOf(signLabel)]_vars

----------------------------------------------------------------------------
(* Properties of the avatar, under SpecAvatar *)

\* Some landmark of the hand has a non-zero x or y.
HasXY(hand) == \E i \in DOMAIN hand : hand[i][1] # 0 \/ hand[i][2] # 0

CallsFor(side) == {call \in tick.calls : call.side = side}

\* C21: in every render tick and for each side, solveArmIK, the wrist
\* rotation and the finger pose run only for a non-null frame whose hand of
\* that side is visible; a null frame or a hand without non-zero x or y
\* gets no such call and takes the relaxed targets.
C21_GateGuardsSolver ==
  tick.ran =>
    \A side \in Sides :
      /\ \A call \in CallsFor(side) :
           /\ tick.frame # NullFrame
           /\ call.landmarks = HandOfSide(tick.frame, side)
           /\ HasXY(call.landmarks)
      /\ (tick.frame = NullFrame \/ ~HasXY(HandOfSide(tick.frame, side)))
           => /\ CallsFor(side) = {}
              /\ tick.targets[side] = RelaxedTargets(side)

\* A tick on a frame with a visible left hand and an all-zero right hand.
C21_Witness ==
  /\ tick.ran
  /\ tick.frame # NullFrame
  /\ CallsFor("left") # {}
  /\ CallsFor("right") = {}
  /\ tick.targets["right"] = RelaxedTargets("right")

\* C22: there is no no-op frame: in every render tick, for each side, every
\* smoothed rotation component receives a target.
C22_EveryJointTargeted ==
  tick.ran =>
    \A j \in Rotations3D : <<j[2], j[3]>> \in DOMAIN tick.targets[j[1]]

\* C23: the smoothing state (the rotation of every bone) is changed only by
\* a render tick; clip load, seek, play, pause, reset and the wraparound of
\* the cursor leave it as it is.
C23_SmoothingStateOnlyByTick ==
  [][/\ (bones' # bones => ticks' = ticks + 1 /\ isReady /\ ~isLoading)
     /\ (\/ frames' # frames
         \/ currentFrame' # currentFrame
         \/ isPlaying' # isPlaying
         \/ isLoading' # isLoading
         \/ isReady' # isReady) => bones' = bones]_vars

\* A load in flight, the avatar unmounted, the bones where the last tick
\* left them.
C23_Witness ==
  /\ isLoading
  /\ ~isReady
  /\ \E j \in Rotations3D : bones[j] # 0

----------------------------------------------------------------------------
(* Properties of the arm solver and of the scene mappings, under SpecData *)

C25_ArmsAreMirrorImages ==
  Returned("mirroredArms") =>
    /\ output.value.right.z = Negated(output.value.left.z)
    /\ output.value.right.y = Negated(output.value.left.y)
    /\ output.value.right.x = output.value.left.x
    /\ output.value.right.elbow = output.value.left.elbow

\* The scene x lies on the other side of the centre than the tracked x.
MirroredOnce(sceneX, trackedX) ==
  /\ sceneX * (trackedX - Unit \div 2) <= 0
  /\ trackedX # Unit \div 2 => sceneX # 0

\* C26: from the camera to the scene x is mirrored exactly once: a point
\* the capture stage stored as 1 - x is not mirrored again by the hand
\* normalizer, the arm skeleton, the wrist position or the avatar mappings.
C26_MirroredExactlyOnce ==
  Returned("cameraToScene") =>
    \A stage \in DOMAIN output.value :
      MirroredOnce(output.value[stage][1], input.point[1])

\* C27: in the hands-only view, with a valid arm and arms shown, the hand
\* group and the hand's wrist landmark are at the wrist end of the arm
\* skeleton; otherwise the hand group is at the fixed default offset.
C27_HandAtArmWrist ==
  Returned("handsScene") =>
    IF input.showArms /\ isArmValid(input.arm)
      THEN /\ output.value.position = output.value.skeletonWrist
           /\ output.value.drawn => output.value.handWrist = output.value.skeletonWrist
      ELSE output.value.position = DefaultPosition(input.side)

====
